---- MODULE Spec2Model ----
(***************************************************************************)
(* One invocation of the deploy-ui-to-cloudflare action, as a state        *)
(* machine.  The repository holds five versions of the entry point         *)
(* (src/index.mjs and src/unnamed/part_000 .. part_003); `variant' says    *)
(* which one runs.  Every await of the code is a step of the machine: the  *)
(* remote platform, the file system and the wrangler tool answer each      *)
(* call nondeterministically.  Text that the code searches with            *)
(* String.includes is a sequence (of tokens for messages, of characters    *)
(* for names and URLs) and `includes' is contiguous containment.           *)
(***************************************************************************)
EXTENDS Integers, Sequences, FiniteSets, TLC

VARIABLES
    variant,      \* which version of run() executes
    input,        \* the action inputs and the trigger context, read-only
    pc,           \* position of run()
    calls,        \* external operations issued so far, in order
    failed,       \* messages passed to core.setFailed, in order
    warnings,     \* kinds of core.warning emitted
    outputs,      \* values passed to core.setOutput('url', ..), in order
    projectExists,\* result of checkProjectExists ("unknown" before)
    deployUrl,    \* deployToCloudflare's return value (<<>> before)
    deployOutput, \* what wrangler printed, while deployToCloudflare reads it
    deployments,  \* the deployments the platform listed, while they are used
    queue,        \* deployments still to be deleted by a sequential loop
    pending,      \* fan-out: ids whose DELETE request is in flight
    results,      \* fan-out: the settled promises' values {id, success}
    summary,      \* fan-out: the reported counts (<<>> before the join)
    laterPages,   \* the project's deployments on the pages the listing did not return
    api,          \* the request helper on its own: a response and what it settles to
    race,         \* two runs on one project: their positions and the project
    ghQueue       \* GitHub deployments still to be marked inactive

vars == <<variant, input, pc, calls, failed, warnings, outputs, projectExists,
          deployUrl, deployOutput, deployments, laterPages, queue, pending, results,
          summary, ghQueue, api, race>>

-----------------------------------------------------------------------------
(* Bounds *)

MaxDeployments == 7
MaxFanOut == 3
MaxGhDeployments == 1
MaxPrDeployments == 3
MaxLines == 2

-----------------------------------------------------------------------------
(* Text *)

\* String.prototype.includes: t occurs contiguously in s.
includes(s, t) ==
    \E i \in 0..(Len(s) - Len(t)) :
        \A j \in 1..Len(t) : s[i + j] = t[j]

Main == <<"m", "a", "i", "n">>
BranchX == <<"x">>
BranchX2 == <<"x", "-", "2">>
Project == <<"d", "e", "m", "o">>
DistFolder == <<"dist">>
PagesDev == <<".", "p", "a", "g", "e", "s", ".", "d", "e", "v">>
Https == <<"h", "t", "t", "p", "s", ":", "/", "/">>
PrPrefix == <<"p", "r", "-", "1">>

\* x || y of JavaScript for strings: the empty string is falsy.
OrElse(x, y) == IF x = <<>> THEN y ELSE x

-----------------------------------------------------------------------------
(* Inputs *)

Variants == {"index", "part_000", "part_001", "part_002", "part_003"}

Events == {"deploy", "delete", "delete-deployment", "delete-project", "publish"}

\* The number of the pull request in the trigger context, when there is one,
\* and an explicit PR_NUMBER input naming another pull request.
ContextPrNumber == <<"7">>
OtherPrNumber == <<"9">>

\* Inputs a version does not read stay at the value action.yml gives them.
DefaultInput ==
    [ required |-> "ok", event |-> "deploy", folderAccessible |-> TRUE,
      branch |-> Main, headers |-> "{}", githubToken |-> FALSE,
      pullRequest |-> FALSE, prNumberInput |-> <<>>,
      commentOnPr |-> "false", commentOnPrCleanup |-> "false",
      createProjectIfMissing |-> "true", cleanupOldDeployments |-> "false",
      deploymentPrefix |-> <<>>, keepDeployments |-> <<>> ]

HeaderInputs == {"{}", "{\"version.json\":{}}", "not json"}

BooleanInputs == {"true", "false", "maybe"}

KeepInputs == {<<>>, <<"2">>, <<"0">>, <<"-", "1">>, <<"a", "b", "c">>}

\* What can be told apart by the flow an event selects.
DeployInputs(base) ==
    { [base EXCEPT !.folderAccessible = f, !.branch = b, !.headers = h] :
        f \in BOOLEAN, b \in {Main, BranchX}, h \in HeaderInputs }

GitHubInputs(base) ==
    {base} \cup
    { [base EXCEPT !.githubToken = TRUE, !.pullRequest = p] : p \in BOOLEAN }

\* part_000 adds the comment switches and the explicit PR number.
CommentInputs(base) ==
    {base} \cup
    { [base EXCEPT !.githubToken = TRUE, !.pullRequest = p,
                   !.commentOnPr = c, !.commentOnPrCleanup = c,
                   !.prNumberInput = n] :
        p \in BOOLEAN, c \in {"true", "false"}, n \in {<<>>, OtherPrNumber} }

\* part_003 adds the retention inputs, read only when the cleanup is on.
RetentionInputs(base) ==
    { [base EXCEPT !.cleanupOldDeployments = "true",
                   !.deploymentPrefix = PrPrefix, !.keepDeployments = k] :
        k \in KeepInputs } \cup
    { [base EXCEPT !.cleanupOldDeployments = "true", !.keepDeployments = k] :
        k \in {<<>>, <<"2">>} } \cup
    { [base EXCEPT !.cleanupOldDeployments = "true", !.githubToken = TRUE,
                   !.pullRequest = TRUE, !.deploymentPrefix = PrPrefix,
                   !.keepDeployments = <<"2">>] }

\* Runs in a pull request that were given no GITHUB_TOKEN, with the comment
\* switches on and a PR number.
NoTokenInputs(events) ==
    { [DefaultInput EXCEPT !.event = e, !.pullRequest = TRUE,
                           !.commentOnPr = "true", !.commentOnPrCleanup = "true",
                           !.prNumberInput = OtherPrNumber] : e \in events }

\* Runs that end in the validation of the inputs.
RejectedInputs(accepted) ==
    { [DefaultInput EXCEPT !.required = r] : r \in {"missing", "blank"} } \cup
    { [DefaultInput EXCEPT !.event = e] : e \in Events \ accepted }

Product(f(_), S) == UNION { f(x) : x \in S }

WithEvent(e) == [DefaultInput EXCEPT !.event = e]

InputsOf(v) ==
    CASE v = "index" ->
           RejectedInputs({"deploy", "delete"})
           \cup Product(GitHubInputs, DeployInputs(WithEvent("deploy")))
           \cup GitHubInputs(WithEvent("delete"))
           \cup NoTokenInputs({"deploy", "delete"})
      [] v = "part_000" ->
           RejectedInputs({"deploy", "delete-deployment", "delete-project"})
           \cup Product(CommentInputs, DeployInputs(WithEvent("deploy")))
           \cup Product(CommentInputs,
                  { [WithEvent("delete-deployment") EXCEPT !.branch = b] :
                      b \in {Main, BranchX} })
           \cup CommentInputs(WithEvent("delete-project"))
           \cup NoTokenInputs({"deploy", "delete-deployment", "delete-project"})
      [] v = "part_001" ->
           RejectedInputs({"deploy", "delete"})
           \cup { [DefaultInput EXCEPT !.createProjectIfMissing = "maybe"] }
           \cup Product(GitHubInputs,
                  Product(DeployInputs,
                    { [WithEvent("deploy") EXCEPT !.createProjectIfMissing = c] :
                        c \in {"true", "false"} }))
           \cup GitHubInputs(WithEvent("delete"))
           \cup NoTokenInputs({"deploy", "delete"})
      [] v = "part_002" ->
           RejectedInputs({"deploy", "delete"})
           \cup DeployInputs(WithEvent("deploy"))
           \cup {WithEvent("delete")}
      [] v = "part_003" ->
           RejectedInputs({"deploy", "delete"})
           \cup { [DefaultInput EXCEPT !.createProjectIfMissing = "maybe"],
                   [DefaultInput EXCEPT !.cleanupOldDeployments = "maybe"] }
           \cup Product(GitHubInputs,
                  Product(DeployInputs,
                    { [WithEvent("deploy") EXCEPT !.createProjectIfMissing = c] :
                        c \in {"true", "false"} }))
           \cup RetentionInputs(WithEvent("deploy"))
           \cup Product(GitHubInputs,
                  { [WithEvent("delete") EXCEPT !.deploymentPrefix = x] :
                      x \in {<<>>, PrPrefix} })
           \cup NoTokenInputs({"deploy", "delete"})

Init ==
    /\ variant \in Variants
    /\ input \in InputsOf(variant)
    /\ pc = "start"
    /\ calls = <<>>
    /\ failed = <<>>
    /\ warnings = {}
    /\ outputs = <<>>
    /\ projectExists = "unknown"
    /\ deployUrl = <<>>
    /\ deployOutput = <<>>
    /\ deployments = <<>>
    /\ laterPages = <<>>
    /\ queue = <<>>
    /\ pending = {}
    /\ results = {}
    /\ summary = <<>>
    /\ ghQueue = <<>>
    /\ api = <<>>
    /\ race = <<>>

-----------------------------------------------------------------------------
(* The run: shared pieces *)

Op(name) == [op |-> name, id |-> "-"]
OpOn(name, i) == [op |-> name, id |-> i]

Issued(name) == { i \in 1..Len(calls) : calls[i].op = name }

\* The catch block of run(): core.setFailed with the error's message.
\* A failure that is recorded and does not end the run.
SetFailedAndGoOn(message) ==
    /\ failed' = Append(failed, <<"Action failed: ">> \o message)
    /\ pc' = pc

SetFailed(message) ==
    /\ failed' = Append(failed, <<"Action failed: ">> \o message)
    /\ pc' = "done"

AcceptedEvents(v) ==
    IF v = "part_000" THEN {"deploy", "delete-deployment", "delete-project"}
    ELSE {"deploy", "delete"}

\* core.getBooleanInput throws on anything but a YAML boolean.
IsBoolean(text) == text \in {"true", "false"}

\* The error the synchronous head of run() throws, <<>> when it throws none.
ValidationError(v, inp) ==
    IF inp.required = "missing"
      THEN <<"Input required and not supplied">>
    ELSE IF v \in {"part_001", "part_003"} /\ ~IsBoolean(inp.createProjectIfMissing)
      THEN <<"Input does not meet YAML 1.2 \"Core Schema\" specification">>
    ELSE IF v = "part_003" /\ ~IsBoolean(inp.cleanupOldDeployments)
      THEN <<"Input does not meet YAML 1.2 \"Core Schema\" specification">>
    ELSE IF v # "part_002" /\ inp.required = "blank"
      THEN <<"Required inputs CLOUDFLARE_API_TOKEN, CLOUDFLARE_ACCOUNT_ID, and PROJECT_NAME must be non-empty">>
    ELSE IF inp.event \notin AcceptedEvents(v)
      THEN <<"EVENT must be either ", "\"deploy\"", "\"delete\"">>
    ELSE <<>>

\* const createProjectIfMissing = core.getBooleanInput(..) || true
createProjectIfMissing(inp) == (inp.createProjectIfMissing = "true") \/ TRUE

\* const cleanupOldDeployments = core.getBooleanInput(..) || false
cleanupOldDeployments(inp) == (inp.cleanupOldDeployments = "true") \/ FALSE

\* const prNumber = core.getInput('PR_NUMBER') || (context pr number || '')
prNumber(inp) ==
    OrElse(inp.prNumberInput, IF inp.pullRequest THEN ContextPrNumber ELSE <<>>)

\* Where run() goes once the Cloudflare side and the GitHub side are done.
AfterGitHub(v, inp) ==
    IF v = "part_003" /\ inp.event = "deploy" /\ cleanupOldDeployments(inp)
      THEN "manage_list"
      ELSE "done"

\* The comment call that follows the deployment record's creation or
\* deactivation; part_000 makes it only if switched on and a PR number is known.
CommentStep(v, inp) ==
    LET step == IF inp.event = "deploy" THEN "comment" ELSE "cleanup_comment"
        on   == IF inp.event = "deploy" THEN inp.commentOnPr = "true"
                                         ELSE inp.commentOnPrCleanup = "true"
    IN  IF v = "part_000"
          THEN IF on /\ prNumber(inp) # <<>> THEN step ELSE AfterGitHub(v, inp)
          ELSE step

\* A run that goes on to the GitHub steps whether or not it has a token.
AfterCloudflareWithoutTokenTest(v, inp) ==
    IF v = "part_002" THEN "done"
    ELSE IF inp.event = "deploy" THEN "link" ELSE "deactivate"

\* if (githubToken) { ... } else { core.info(..) }
AfterCloudflare(v, inp) ==
    IF v = "part_002" THEN "done"
    ELSE IF inp.githubToken
      THEN IF inp.event = "deploy" THEN "link" ELSE "deactivate"
      ELSE AfterGitHub(v, inp)

\* The first await of run() after the inputs were accepted.
\* A deploy that goes to the folder and the command without the check.
FirstStepWithoutCheck(v, inp) ==
    CASE inp.event = "deploy" -> "access"
      [] inp.event = "delete-deployment" -> "fetch_list"
      [] inp.event = "delete-project" -> "delete_project"
      [] inp.event = "delete" ->
           IF v = "part_001" THEN "check_project"
           ELSE IF v = "part_003"
             THEN IF inp.deploymentPrefix # <<>> THEN "list" ELSE AfterCloudflare(v, inp)
           ELSE "delete_project"

FirstStep(v, inp) ==
    CASE inp.event = "deploy" ->
           IF v \in {"part_001", "part_003"} THEN "check_project" ELSE "access"
      [] inp.event = "delete-deployment" -> "fetch_list"
      [] inp.event = "delete-project" -> "delete_project"
      [] inp.event = "delete" ->
           IF v = "part_001" THEN "check_project"
           ELSE IF v = "part_003"
             THEN IF inp.deploymentPrefix # <<>> THEN "list" ELSE AfterCloudflare(v, inp)
           ELSE "delete_project"

Validate ==
    /\ pc = "start"
    /\ IF ValidationError(variant, input) # <<>>
         THEN SetFailed(ValidationError(variant, input))
         ELSE pc' = FirstStep(variant, input) /\ UNCHANGED failed
    /\ UNCHANGED <<variant, input, api, race, laterPages, deployOutput, deployments, calls, warnings, outputs, projectExists,
                   deployUrl, queue, pending, results, summary, ghQueue>>

-----------------------------------------------------------------------------
(* Cloudflare API client *)

\* What the HTTPS request can end in: an answer (status, body) or no answer.
ApiResponses ==
    { [net |-> TRUE, status |-> "200", json |-> TRUE, body |-> <<"{\"success\":true}">>],
      [net |-> TRUE, status |-> "404", json |-> TRUE, body |-> <<"Project not found">>],
      [net |-> TRUE, status |-> "500", json |-> TRUE, body |-> <<"internal error">>],
      [net |-> TRUE, status |-> "500", json |-> TRUE, body |-> <<"ray ", "404", "f1">>],
      [net |-> TRUE, status |-> "502", json |-> FALSE, body |-> <<"<html>Bad gateway</html>">>],
      [net |-> FALSE, status |-> "-", json |-> FALSE, body |-> <<"ECONNRESET">>] }

Is2xx(status) == status \in {"200", "201"}

Resolve == [ok |-> TRUE, message |-> <<>>]
Reject(message) == [ok |-> FALSE, message |-> message]

\* index.mjs: the status decides first, the body is parsed only on 2xx.
cloudflareApiRequest(r) ==
    IF ~r.net THEN Reject(<<"Request to Cloudflare API failed: ">> \o r.body)
    ELSE IF Is2xx(r.status)
      THEN IF r.json THEN Resolve
           ELSE Reject(<<"Failed to parse Cloudflare API response: ", "Unexpected token">>)
      ELSE Reject(<<"Cloudflare API returned ", r.status, ": ">> \o r.body)

\* JSON.stringify(JSON.parse(text)): the text without its white space.
stringify(text) == SelectSeq(text, LAMBDA t : t # " ")

\* part_001: the body is parsed first, whatever the status, and the error
\* of a non-2xx answer carries the parsed body serialized again.
cloudflareApiRequestParseFirst(r) ==
    IF ~r.net THEN Reject(<<"Request to Cloudflare API failed: ">> \o r.body)
    ELSE IF ~r.json
      THEN Reject(<<"Failed to parse Cloudflare API response: ", "Unexpected token">>)
    ELSE IF Is2xx(r.status) THEN Resolve
    ELSE Reject(<<"Cloudflare API returned ", r.status, ": ">> \o stringify(r.body))

\* What `npx wrangler` can end in: exit code 0, or a failure with this stderr.
WranglerErrors ==
    { <<>>, <<"Project ", "not found">>, <<"Project ", "does not exist">>,
      <<"Project has ", "too many deployments">>, <<"code: ", "8000076">>,
      <<"Authentication error">> }

\* How a command ended, as the log of calls keeps it.
Exit0 == <<"exit 0">>
Exit1(errorOutput) == <<"exit 1">> \o errorOutput

\* errorOutput || error.message
ExecMessage(errorOutput) ==
    OrElse(errorOutput, <<"The process 'npx' failed with exit code 1">>)

-----------------------------------------------------------------------------
(* Deploy flow: project check and creation (part_001, part_003) *)

\* part_001 checkProjectExists: "exists", "absent", or the error rethrown.
checkProjectExistsApi(r) ==
    LET res == cloudflareApiRequestParseFirst(r)
    IN  IF res.ok THEN [exists |-> "yes", rethrown |-> <<>>, warned |-> FALSE]
        ELSE IF includes(res.message, <<"404">>)
          THEN [exists |-> "no", rethrown |-> <<>>, warned |-> FALSE]
          ELSE [exists |-> "error", rethrown |-> res.message, warned |-> TRUE]

\* part_003 checkProjectExists: `wrangler pages project list`; when the
\* command fails the project is assumed absent.
ProjectListings == {"listed", "not listed", "failed"}

\* A check that rethrows the failure of the command instead.
checkProjectExistsWranglerRethrows(listing) ==
    [exists |-> CASE listing = "listed" -> "yes" [] listing = "failed" -> "error"
                  [] OTHER -> "no",
     rethrown |-> <<"Failed to list projects">>, warned |-> listing = "failed"]

checkProjectExistsWrangler(listing) ==
    [exists |-> IF listing = "listed" THEN "yes" ELSE "no",
     rethrown |-> <<>>, warned |-> listing = "failed"]

\* if (!projectExists) { if (createProjectIfMissing) create else throw }
AfterCheck(v, inp, exists) ==
    IF inp.event = "deploy"
      THEN IF exists = "yes" THEN "access"
           ELSE IF createProjectIfMissing(inp) THEN "create_project"
           ELSE "throw"
      ELSE IF exists = "yes" THEN "delete_project" ELSE AfterCloudflare(v, inp)

NotCreatedMessage ==
    <<"Project \"">> \o Project
      \o <<"\" does not exist and CREATE_PROJECT_IF_MISSING is set to false">>

CheckProjectOutcome(found) ==
    /\ projectExists' = found.exists
    /\ warnings' = IF found.warned THEN warnings \cup {"check project"} ELSE warnings
    /\ IF found.exists = "error"
         THEN SetFailed(found.rethrown)
         ELSE IF AfterCheck(variant, input, found.exists) = "throw"
                THEN SetFailed(NotCreatedMessage)
                ELSE pc' = AfterCheck(variant, input, found.exists)
                     /\ UNCHANGED failed

CheckProject ==
    /\ pc = "check_project"
    /\ \/ /\ variant = "part_001"
          /\ \E r \in ApiResponses :
                /\ calls' = Append(calls, OpOn("GET project", r.status))
                /\ CheckProjectOutcome(checkProjectExistsApi(r))
       \/ /\ variant = "part_003"
          /\ \E l \in ProjectListings :
                /\ calls' = Append(calls, OpOn("wrangler project list", l))
                /\ CheckProjectOutcome(checkProjectExistsWrangler(l))
    /\ UNCHANGED <<variant, input, api, race, laterPages, deployOutput, deployments, outputs, deployUrl, queue, pending, results,
                   summary, ghQueue>>

\* createProject: any failure is rethrown as "Failed to create project".
CreateProject ==
    /\ pc = "create_project"
    /\ \/ /\ variant = "part_001"
          /\ calls' = Append(calls, Op("POST project"))
          /\ \E r \in ApiResponses :
                LET res == cloudflareApiRequestParseFirst(r)
                IN  IF res.ok
                      THEN pc' = "access" /\ UNCHANGED failed
                      ELSE SetFailed(<<"Failed to create project: ">> \o res.message)
       \/ /\ variant = "part_003"
          /\ calls' = Append(calls, Op("wrangler project create"))
          /\ \/ pc' = "access" /\ UNCHANGED failed
             \/ \E e \in WranglerErrors :
                   SetFailed(<<"Failed to create project: ">> \o ExecMessage(e))
    /\ UNCHANGED <<variant, input, api, race, laterPages, deployOutput, deployments, warnings, outputs, projectExists, deployUrl,
                   queue, pending, results, summary, ghQueue>>

-----------------------------------------------------------------------------
(* Deploy flow: deployToCloudflare *)

\* A message that does not say which folder.
FolderMessageNoPath(v) == <<"Distribution folder does not exist">>

FolderMessage(v) ==
    <<"Distribution folder \"">> \o DistFolder
      \o <<IF v = "part_002" THEN "\" does not exist"
                             ELSE "\" does not exist or is not accessible">>

\* await fs.access(distFolder)
AccessFolder ==
    /\ pc = "access"
    /\ calls' = Append(calls, Op("fs.access"))
    /\ IF input.folderAccessible
         THEN pc' = "headers" /\ UNCHANGED failed
         ELSE SetFailed(FolderMessage(variant))
    /\ UNCHANGED <<variant, input, api, race, laterPages, deployOutput, deployments, warnings, outputs, projectExists, deployUrl,
                   queue, pending, results, summary, ghQueue>>

\* A headers block without the test for an empty object.
HeadersParseNoEmptyTest(text) == IF text = "not json" THEN "throws" ELSE "object"

\* JSON.parse(headersJson) and Object.keys(..).length > 0
HeadersParse(text) ==
    CASE text = "{}" -> "empty"
      [] text = "not json" -> "throws"
      [] OTHER -> "object"

\* The headers block: the sidecar file is written for a non-empty object;
\* a parse error or a failed write is a warning.
ProcessHeaders ==
    /\ pc = "headers"
    /\ pc' = "wrangler"
    /\ CASE HeadersParse(input.headers) = "empty" ->
              UNCHANGED <<calls, warnings>>
         [] HeadersParse(input.headers) = "throws" ->
              /\ warnings' = warnings \cup {"headers"}
              /\ UNCHANGED calls
         [] OTHER ->
              /\ calls' = Append(calls, OpOn("fs.writeFile _headers.json", input.headers))
              /\ \/ UNCHANGED warnings
                 \/ warnings' = warnings \cup {"headers"}
    /\ UNCHANGED <<variant, input, api, race, laterPages, deployOutput, deployments, failed, outputs, projectExists, deployUrl,
                   queue, pending, results, summary, ghQueue>>

-----------------------------------------------------------------------------
(* Deploy flow: the deployment URL *)

\* A line of wrangler's output: an optional decorative symbol, a phrase and
\* the URL that follows it (<<>> when none does).
Line(deco, phrase, url) == [deco |-> deco, phrase |-> phrase, url |-> url]

UrlAlias == <<"https://x.test">>
UrlOther == <<"https://y.test">>
UrlHash == <<"https://abc123.demo.pages.dev">>

\* What can stand before a phrase: nothing, the sparkles character that
\* wrangler prints, or the bytes of that character read as Latin-1.
Decorations == {"none", "sparkles", "mojibake"}

OutputLines ==
    { Line(d, "Deployment alias URL:", UrlAlias) : d \in Decorations } \cup
    { Line(d, "Deployment complete! Take a peek over at", UrlHash) : d \in Decorations } \cup
    { Line("none", "Successfully deployed to", UrlOther),
      Line("none", "Uploading... (3/3)", <<>>) }

\* What wrangler prints on a successful deploy: up to MaxLines of these.
DeployOutputs == UNION { [1..n -> OutputLines] : n \in 0..MaxLines }

\* The symbol the regular expressions of a version spell out: part_000 has
\* the sparkles character, index.mjs and part_001 its mis-decoded bytes.
SymbolOf(v) == IF v = "part_000" THEN "sparkles" ELSE "mojibake"

\* String.match: the URL of the first line the pattern matches, <<>> if none.
FirstMatch(out, Matches(_)) ==
    LET hits == { i \in 1..Len(out) : out[i].url # <<>> /\ Matches(out[i]) }
    IN  IF hits = {} THEN <<>>
        ELSE out[CHOOSE i \in hits : \A j \in hits : i <= j].url

\* A guess that leaves the branch out.
GuessedUrlWithoutBranch(branch) == Https \o Project \o PagesDev

GuessedUrl(branch) ==
    Https \o (IF branch = Main THEN <<>> ELSE branch \o <<".">>) \o Project \o PagesDev

\* index.mjs, part_000, part_001: alias pattern, then the standard pattern.
extractUrl(v, out, branch) ==
    LET aliasMatch ==
          FirstMatch(out, LAMBDA l : l.phrase = "Deployment alias URL:"
                                     /\ l.deco = SymbolOf(v))
        standardMatch ==
          FirstMatch(out, LAMBDA l :
              \/ l.phrase \in {"View your deployed site at",
                                "Successfully deployed to", "Preview URL"}
              \/ /\ l.phrase = "Deployment complete! Take a peek over at"
                 /\ l.deco = SymbolOf(v))
    IN  IF aliasMatch # <<>> THEN [url |-> aliasMatch, guessed |-> FALSE]
        ELSE IF standardMatch # <<>> THEN [url |-> standardMatch, guessed |-> FALSE]
        ELSE [url |-> GuessedUrl(branch), guessed |-> TRUE]

\* part_003: primary pattern, alias pattern, standard pattern; no symbol.
extractUrlPrimaryFirst(out, branch) ==
    LET primaryMatch ==
          FirstMatch(out, LAMBDA l : l.phrase = "Deployment complete! Take a peek over at")
        aliasMatch ==
          FirstMatch(out, LAMBDA l : l.phrase = "Deployment alias URL:")
        standardMatch ==
          FirstMatch(out, LAMBDA l :
              l.phrase \in {"View your deployed site at",
                             "Successfully deployed to", "Preview URL"})
    IN  IF primaryMatch # <<>> THEN [url |-> primaryMatch, guessed |-> FALSE]
        ELSE IF aliasMatch # <<>> THEN [url |-> aliasMatch, guessed |-> FALSE]
        ELSE IF standardMatch # <<>> THEN [url |-> standardMatch, guessed |-> FALSE]
        ELSE [url |-> GuessedUrl(branch), guessed |-> TRUE]

\* part_002: the first URL anywhere in the output, and no guess.
extractUrlAny(out) ==
    [url |-> FirstMatch(out, LAMBDA l : TRUE), guessed |-> FALSE]

DeployOutcome(v, out, branch) ==
    CASE v = "part_002" -> extractUrlAny(out)
      [] v = "part_003" -> extractUrlPrimaryFirst(out, branch)
      [] OTHER -> extractUrl(v, out, branch)

\* A catch that swallows the failure and goes on as if nothing was printed.
deployFailureSwallowed(v, errorOutput) == [throws |-> FALSE, message |-> <<>>]

\* The catch around exec.exec in deployToCloudflare: the failure is rethrown
\* (part_002 has no catch, the exec error itself reaches run()).
deployFailure(v, errorOutput) ==
    [ throws |-> TRUE,
      message |-> IF v = "part_002"
                    THEN ExecMessage(<<>>)
                    ELSE <<"Wrangler deployment failed: ">> \o ExecMessage(errorOutput) ]

\* Everything after a successful exec, up to the return: extract, setOutput.
Deployed(out) ==
    LET found == DeployOutcome(variant, out, input.branch)
    IN  /\ pc' = "deploy_return"
        /\ deployOutput' = out
        /\ deployUrl' = found.url
        /\ IF found.url = <<>>
             THEN /\ warnings' = warnings \cup {"no url"}
                  /\ UNCHANGED outputs
             ELSE /\ warnings' = IF found.guessed THEN warnings \cup {"no url"}
                                                   ELSE warnings
                  /\ outputs' = Append(outputs, found.url)
        /\ UNCHANGED failed

WranglerDeploy ==
    /\ pc = "wrangler"
    /\ \/ \E out \in DeployOutputs :
             /\ calls' = Append(calls, OpOn("wrangler pages deploy", Exit0))
             /\ Deployed(out)
       \/ \E e \in WranglerErrors :
             /\ calls' = Append(calls, OpOn("wrangler pages deploy", Exit1(e)))
             /\ IF deployFailure(variant, e).throws
                  THEN /\ SetFailed(deployFailure(variant, e).message)
                       /\ UNCHANGED <<warnings, outputs, deployUrl, deployOutput>>
                  ELSE Deployed(<<>>)
    /\ UNCHANGED <<variant, input, api, race, laterPages, deployments, projectExists, queue, pending, results,
                   summary, ghQueue>>

-----------------------------------------------------------------------------
(* GitHub side *)

\* envName = `${environment}/pr-${context.payload.pull_request.number}`
envName == <<"preview", "/pr-">> \o ContextPrNumber

\* issue_number of the comment: the pull request of the trigger context, or
\* in part_000 parseInt(prNumber).
CommentTarget(v, inp) == IF v = "part_000" THEN prNumber(inp) ELSE ContextPrNumber

\* createGitHubDeployment up to its first request: nothing outside a pull
\* request; a failed createDeployment is a warning.
LinkCreate ==
    /\ pc = "link"
    /\ IF ~input.pullRequest
         THEN /\ pc' = CommentStep(variant, input)
              /\ UNCHANGED <<calls, warnings>>
         ELSE /\ calls' = Append(calls, OpOn("createDeployment", envName))
              /\ \/ pc' = "link_status" /\ UNCHANGED warnings
                 \/ /\ pc' = CommentStep(variant, input)
                    /\ warnings' = warnings \cup {"link"}
    /\ UNCHANGED <<variant, input, api, race, laterPages, deployOutput, deployments, failed, outputs, projectExists, deployUrl,
                   queue, pending, results, summary, ghQueue>>

\* createDeploymentStatus(state: 'success', environment_url: url)
LinkStatus ==
    /\ pc = "link_status"
    /\ calls' = Append(calls, OpOn("createDeploymentStatus success", deployUrl))
    /\ pc' = CommentStep(variant, input)
    /\ \/ UNCHANGED warnings
       \/ warnings' = warnings \cup {"link"}
    /\ UNCHANGED <<variant, input, api, race, laterPages, deployOutput, deployments, failed, outputs, projectExists, deployUrl,
                   queue, pending, results, summary, ghQueue>>

\* commentOnPR / commentOnPRCleanup return early outside a pull request;
\* part_000's commentOnPullRequest has no such test.
\* A comment function without the test for a pull request.
CommentNeverSkipped(v, inp) == FALSE

CommentSkipped(v, inp) == v # "part_000" /\ ~inp.pullRequest

\* A comment call whose failure is not caught.
PostCommentFatal(step, body) ==
    /\ pc = step
    /\ IF CommentSkipped(variant, input)
         THEN pc' = AfterGitHub(variant, input) /\ UNCHANGED <<calls, warnings, failed>>
         ELSE /\ calls' = Append(calls,
                     [op |-> "createComment", id |-> CommentTarget(variant, input),
                      body |-> body])
              /\ \/ pc' = AfterGitHub(variant, input) /\ UNCHANGED <<warnings, failed>>
                 \/ /\ warnings' = warnings \cup {"comment"}
                    /\ SetFailed(<<"Not Found">>)
    /\ UNCHANGED <<variant, input, api, race, laterPages, deployOutput, deployments, outputs, projectExists, deployUrl,
                   queue, pending, results, summary, ghQueue>>

\* A failed createComment is caught (in the function, or in part_000 by the
\* try around the call in run()) and logged as a warning.
PostComment(step, body) ==
    /\ pc = step
    /\ pc' = AfterGitHub(variant, input)
    /\ UNCHANGED failed
    /\ IF CommentSkipped(variant, input)
         THEN UNCHANGED <<calls, warnings>>
         ELSE /\ calls' = Append(calls,
                     [op |-> "createComment", id |-> CommentTarget(variant, input),
                      body |-> body])
              /\ \/ UNCHANGED warnings
                 \/ warnings' = warnings \cup {"comment"}
    /\ UNCHANGED <<variant, input, api, race, laterPages, deployOutput, deployments, outputs, projectExists, deployUrl,
                   queue, pending, results, summary, ghQueue>>

Comment == PostComment("comment", <<"PR Preview deployed to: ">> \o deployUrl)

CleanupComment ==
    PostComment("cleanup_comment", <<"PR Preview environment has been cleaned up.">>)

\* deactivateGitHubDeployments up to the listing: nothing outside a pull
\* request, nothing to do for an empty listing, a warning when it fails.
DeactivateList ==
    /\ pc = "deactivate"
    /\ IF ~input.pullRequest
         THEN /\ pc' = CommentStep(variant, input)
              /\ UNCHANGED <<calls, warnings, ghQueue>>
         ELSE /\ calls' = Append(calls, OpOn("listDeployments", envName))
              /\ \/ /\ pc' = CommentStep(variant, input)
                    /\ warnings' = warnings \cup {"deactivate"}
                    /\ UNCHANGED ghQueue
                 \/ \E n \in 0..MaxGhDeployments :
                      /\ ghQueue' = [i \in 1..n |-> i]
                      /\ pc' = IF n = 0 THEN CommentStep(variant, input)
                                        ELSE "deactivate_status"
                      /\ UNCHANGED warnings
    /\ UNCHANGED <<variant, input, api, race, laterPages, deployOutput, deployments, failed, outputs, projectExists, deployUrl,
                   queue, pending, results, summary>>

\* The loop marking each listed deployment inactive; the first failure ends
\* it with a warning.
DeactivateStatus ==
    /\ pc = "deactivate_status"
    /\ calls' = Append(calls, OpOn("createDeploymentStatus inactive", Head(ghQueue)))
    /\ \/ /\ ghQueue' = Tail(ghQueue)
          /\ pc' = IF Tail(ghQueue) = <<>> THEN CommentStep(variant, input)
                                           ELSE "deactivate_status"
          /\ UNCHANGED warnings
       \/ /\ ghQueue' = <<>>
          /\ pc' = CommentStep(variant, input)
          /\ warnings' = warnings \cup {"deactivate"}
    /\ UNCHANGED <<variant, input, api, race, laterPages, deployOutput, deployments, failed, outputs, projectExists, deployUrl,
                   queue, pending, results, summary>>

-----------------------------------------------------------------------------
(* Project deletion *)

NotFound(text) == includes(text, <<"not found">>) \/ includes(text, <<"does not exist">>)

TooMany(text) == includes(text, <<"too many deployments">>) \/ includes(text, <<"8000076">>)

\* A catch without the test for an absent project.
deleteFromCloudflareNoAbsence(v, errorOutput) ==
    [kind |-> "throw",
     message |-> <<"Failed to delete project: ">> \o ExecMessage(errorOutput)]

\* The catch of deleteFromCloudflare / deleteProjectFromCloudflare for a
\* failed `wrangler pages project delete` with this stderr:
\* "absent" (a warning), "api" (part_001 retries through the API), "throw".
deleteFromCloudflare(v, errorOutput) ==
    IF v = "part_002"
      THEN [kind |-> "throw", message |-> ExecMessage(<<>>)]
    ELSE IF NotFound(errorOutput)
      THEN [kind |-> "absent", message |-> <<>>]
    ELSE IF v = "index" /\ TooMany(errorOutput)
      THEN [kind |-> "throw",
            message |-> <<"Project has ", "too many deployments", " to be deleted: ">>
                        \o errorOutput]
    ELSE IF v = "part_001" /\ TooMany(errorOutput)
      THEN [kind |-> "api", message |-> <<>>]
    ELSE [kind |-> "throw",
          message |-> <<"Failed to delete project: ">> \o ExecMessage(errorOutput)]

\* A catch that tries again whatever the failure was.
RetriesAfterAnyFailure(v, message) == v = "index"

\* The inner catch of run() in index.mjs: clean up and try again on
\* "too many deployments", rethrow anything else.
RetriesAfter(v, message) == v = "index" /\ TooMany(message)

DeleteProject ==
    /\ pc = "delete_project"
    /\ \/ /\ calls' = Append(calls, OpOn("wrangler project delete", Exit0))
          /\ pc' = AfterCloudflare(variant, input)
          /\ UNCHANGED <<failed, warnings>>
       \/ \E e \in WranglerErrors :
             LET r == deleteFromCloudflare(variant, e)
             IN  /\ calls' = Append(calls, OpOn("wrangler project delete", Exit1(e)))
                 /\ CASE r.kind = "absent" ->
                        /\ pc' = AfterCloudflare(variant, input)
                        /\ warnings' = warnings \cup {"project absent"}
                        /\ UNCHANGED failed
                   [] r.kind = "api" ->
                        /\ pc' = "delete_project_api"
                        /\ UNCHANGED <<failed, warnings>>
                   [] OTHER ->
                        IF RetriesAfter(variant, r.message)
                          THEN /\ pc' = "cleanup_list"
                               /\ warnings' = warnings \cup {"too many deployments"}
                               /\ UNCHANGED failed
                          ELSE /\ SetFailed(r.message)
                               /\ UNCHANGED warnings
    /\ UNCHANGED <<variant, input, api, race, laterPages, deployOutput, deployments, outputs, projectExists, deployUrl, queue,
                   pending, results, summary, ghQueue>>

\* index.mjs line 60: the second deleteFromCloudflare, outside the inner try.
DeleteProjectRetry ==
    /\ pc = "delete_retry"
    /\ \/ /\ calls' = Append(calls, OpOn("wrangler project delete", Exit0))
          /\ pc' = AfterCloudflare(variant, input)
          /\ UNCHANGED <<failed, warnings>>
       \/ \E e \in WranglerErrors :
             LET r == deleteFromCloudflare(variant, e)
             IN  /\ calls' = Append(calls, OpOn("wrangler project delete", Exit1(e)))
                 /\ IF r.kind = "absent"
                   THEN /\ pc' = AfterCloudflare(variant, input)
                        /\ warnings' = warnings \cup {"project absent"}
                        /\ UNCHANGED failed
                   ELSE /\ SetFailed(r.message)
                        /\ UNCHANGED warnings
    /\ UNCHANGED <<variant, input, api, race, laterPages, deployOutput, deployments, outputs, projectExists, deployUrl, queue,
                   pending, results, summary, ghQueue>>

\* part_001: DELETE through the API after "too many deployments".
DeleteProjectApi ==
    /\ pc = "delete_project_api"
    /\ calls' = Append(calls, Op("DELETE project"))
    /\ \E r \in ApiResponses :
          LET res == cloudflareApiRequestParseFirst(r)
          IN  IF res.ok
                THEN pc' = AfterCloudflare(variant, input) /\ UNCHANGED failed
                ELSE SetFailed(<<"Failed to delete project via API: ">> \o res.message)
    /\ UNCHANGED <<variant, input, api, race, laterPages, deployOutput, deployments, warnings, outputs, projectExists, deployUrl,
                   queue, pending, results, summary, ghQueue>>

-----------------------------------------------------------------------------
(* index.mjs: cleanupDeployments *)

\* Array.prototype.slice(start, end): a negative index counts from the end.
SliceIndex(k, len) ==
    IF k < 0 THEN (IF len + k < 0 THEN 0 ELSE len + k)
    ELSE (IF k > len THEN len ELSE k)

slice(s, start, end) ==
    LET from == SliceIndex(start, Len(s))
        to   == SliceIndex(end, Len(s))
    IN  IF to <= from THEN <<>> ELSE SubSeq(s, from + 1, to)

\* Array.prototype.sort with a comparator on one key: a stable sort.
\* Before(i, j): element i precedes element j in the result.
sort(s, Less(_, _)) ==
    LET Before(i, j) == Less(s[i], s[j]) \/ (~Less(s[j], s[i]) /\ i < j)
        Rank(i) == Cardinality({ j \in 1..Len(s) : Before(j, i) }) + 1
    IN  [k \in 1..Len(s) |-> s[CHOOSE i \in 1..Len(s) : Rank(i) = k]]

filter(s, Keep(_)) ==
    LET F[i \in 0..Len(s)] ==
          IF i = 0 THEN <<>>
          ELSE IF Keep(s[i]) THEN Append(F[i - 1], s[i]) ELSE F[i - 1]
    IN  F[Len(s)]

\* Array.prototype.find: the first element that passes, <<>> for undefined.
find(s, Test(_)) ==
    LET hits == filter(s, Test) IN IF hits = <<>> THEN <<>> ELSE <<hits[1]>>

deploymentsToKeep == 5

Deployment(i, created, env) == [id |-> i, created_on |-> created, environment |-> env]

\* The k-th deployment of a project: created at time k, or, when two
\* deployments were created at the same time, the second at the time of
\* the first; production deployments are p and, if there are two, p + 1.
CleanupRecord(k, p, two, tie) ==
    Deployment(k, IF tie /\ k = 2 THEN 1 ELSE k,
               IF k = p \/ (two /\ p > 0 /\ k = p + 1) THEN "production"
                                                       ELSE "preview")

\* The listings the API answers with: the n deployments of the project,
\* returned newest first or oldest first.
CleanupListings ==
    { [i \in 1..n |->
         CleanupRecord(IF newestFirst THEN n + 1 - i ELSE i, p, two, tie)] :
        n \in 0..MaxDeployments, newestFirst \in BOOLEAN, p \in 0..MaxDeployments,
        two \in BOOLEAN, tie \in BOOLEAN }

\* The request asks for no page and reads `result` only: what the project
\* holds on the pages after the first is not returned. Here a page holds
\* MaxDeployments deployments, and after a full first page there is nothing
\* more, or one older deployment.
CleanupLaterPages(listed) ==
    IF Len(listed) < MaxDeployments THEN {<<>>}
    ELSE {<<>>, <<Deployment(MaxDeployments + 1, 0, "preview")>>}

\* Lines 180-196: sort oldest first, spare the first production deployment
\* found, then drop the last deploymentsToKeep from the list to delete.
deploymentsToActuallyDelete(listed) ==
    LET sortedDeployments ==
          sort(listed, LAMBDA a, b : a.created_on < b.created_on)
        productionDeployment ==
          find(sortedDeployments, LAMBDA d : d.environment = "production")
        deploymentsToDelete ==
          IF productionDeployment # <<>>
            THEN filter(sortedDeployments, LAMBDA d : d.id # productionDeployment[1].id)
            ELSE sortedDeployments
    IN  slice(deploymentsToDelete, 0, Len(deploymentsToDelete) - deploymentsToKeep)

\* cleanupDeployments up to the listing; every failure inside it is a
\* warning, after which run() tries the project deletion again.
CleanupList ==
    /\ pc = "cleanup_list"
    /\ calls' = Append(calls, Op("GET deployments"))
    /\ \/ \E r \in ApiResponses :
             /\ ~cloudflareApiRequest(r).ok
             /\ warnings' = warnings \cup {"cleanup"}
             /\ pc' = "cleanup_return"
             /\ UNCHANGED <<deployments, laterPages, queue>>
       \/ \E listed \in CleanupListings : \E later \in CleanupLaterPages(listed) :
             LET doomed == deploymentsToActuallyDelete(listed)
             IN  /\ deployments' = listed
                 /\ laterPages' = later
                 /\ IF Len(listed) = 0
                      THEN pc' = "cleanup_return" /\ UNCHANGED <<warnings, queue>>
                    ELSE IF Len(doomed) = 0
                      THEN /\ pc' = "cleanup_return"
                           /\ warnings' = warnings \cup {"below threshold"}
                           /\ UNCHANGED queue
                    ELSE /\ pc' = "cleanup_delete"
                         /\ queue' = doomed
                         /\ UNCHANGED warnings
    /\ UNCHANGED <<variant, input, api, race, deployOutput, failed, outputs, projectExists, deployUrl,
                   pending, results, summary, ghQueue>>

\* The loop of lines 205-209: deleteDeployment throws on a failed request,
\* which ends the loop in cleanupDeployments' catch.
CleanupDelete ==
    /\ pc = "cleanup_delete"
    /\ calls' = Append(calls, OpOn("DELETE deployment", Head(queue).id))
    /\ \E r \in ApiResponses :
          IF cloudflareApiRequest(r).ok
            THEN /\ queue' = Tail(queue)
                 /\ pc' = IF Tail(queue) = <<>> THEN "cleanup_return" ELSE "cleanup_delete"
                 /\ UNCHANGED warnings
            ELSE /\ queue' = <<>>
                 /\ pc' = "cleanup_return"
                 /\ warnings' = warnings \cup {"cleanup"}
    /\ UNCHANGED <<variant, input, api, race, laterPages, deployOutput, deployments, failed, outputs, projectExists, deployUrl,
                   pending, results, summary, ghQueue>>

-----------------------------------------------------------------------------
(* part_000: deleteDeploymentFromCloudflare *)

UrlOf(branch) ==
    Https \o (IF branch = Main THEN <<>> ELSE branch \o <<".">>) \o Project \o PagesDev

\* The URL of a deployment that is named by its hash.
HashUrl == Https \o <<"0", "1">> \o Project \o PagesDev

\* What a listed deployment can look like to the matching rules:
\* 1 of branch x, 2 of branch x-2, 3 without branch metadata, 4 of main (the
\* production deployment), 5 without branch metadata and with the URL of
\* its hash, known as a deployment of branch x by its alias only.
BranchDeployment(i, kind) ==
    [ id |-> i,
      branch |-> CASE kind = 1 -> BranchX [] kind = 2 -> BranchX2
                   [] kind = 4 -> Main [] OTHER -> <<>>,
      url |-> CASE kind = 1 -> UrlOf(BranchX) [] kind = 2 -> UrlOf(BranchX2)
                [] kind = 3 -> UrlOf(BranchX) [] kind = 4 -> UrlOf(Main)
                [] OTHER -> HashUrl,
      aliases |-> IF kind = 5 THEN <<UrlOf(BranchX)>> ELSE <<>>,
      environment |-> IF kind = 4 THEN "production" ELSE "preview" ]

\* Listings of up to MaxFanOut deployments; the order of a listing does not
\* enter the matching, so one order per choice of kinds is listed.
FanOutListings ==
    { [i \in 1..n |-> BranchDeployment(i, kinds[i])] :
        n \in 0..MaxFanOut,
        kinds \in { k \in [1..MaxFanOut -> 1..5] :
                      \A i \in 1..(MaxFanOut - 1) : k[i] <= k[i + 1] } }

\* The pages after the first, which the one fetch of line 388 does not ask
\* for. Here a page holds MaxFanOut deployments, and after a full first page
\* there is nothing more, or one more deployment of branch x.
FanOutLaterPages(listed) ==
    IF Len(listed) < MaxFanOut THEN {<<>>}
    ELSE {<<>>, <<BranchDeployment(MaxFanOut + 1, 1)>>}

LowerAlnum ==
    {"a", "b", "c", "d", "e", "f", "g", "h", "i", "j", "k", "l", "m", "n", "o",
     "p", "q", "r", "s", "t", "u", "v", "w", "x", "y", "z",
     "0", "1", "2", "3", "4", "5", "6", "7", "8", "9"}

\* branch.toLowerCase().replace(/[^a-z0-9]/g, '-'), for lower-case names
branchFormatted(branch) ==
    [i \in 1..Len(branch) |-> IF branch[i] \in LowerAlnum THEN branch[i] ELSE "-"]

\* A matching that falls back to every listed deployment.
matchingDeploymentsOrAll(listed, branch) ==
    LET exact == filter(listed, LAMBDA d : d.branch # <<>> /\ d.branch = branch)
        byUrl == filter(listed, LAMBDA d :
                     d.url # <<>> /\ includes(d.url, branchFormatted(branch)))
    IN  IF Len(exact) > 0 THEN exact ELSE IF Len(byUrl) > 0 THEN byUrl ELSE listed

\* A matching that takes the deployments found by either rule.
matchingDeploymentsEitherRule(listed, branch) ==
    filter(listed, LAMBDA d :
        \/ d.branch # <<>> /\ d.branch = branch
        \/ d.url # <<>> /\ includes(d.url, branchFormatted(branch)))

\* Lines 405-426: by branch metadata; if that finds nothing, by URL.
matchingDeployments(listed, branch) ==
    LET exact == filter(listed, LAMBDA d : d.branch # <<>> /\ d.branch = branch)
    IN  IF Len(exact) = 0
          THEN filter(listed, LAMBDA d :
                   d.url # <<>> /\ includes(d.url, branchFormatted(branch)))
          ELSE exact

\* What the listing request can fail with.
ListFailures ==
    { <<"Failed to list deployments: ", "404", " Not Found - ", "Project ", "not found">>,
      <<"Failed to list deployments: ", "500", " Internal Server Error - ">>,
      <<"API error: ", "[{\"code\":8000000}]">>,
      <<"fetch failed">> }

\* A map() that asks for every deletion a second time.
RequestsTwice(matching) ==
    [i \in 1..(2 * Len(matching)) |->
        OpOn("DELETE deployment", matching[((i - 1) % Len(matching)) + 1].id)]

Requests(matching) ==
    [i \in 1..Len(matching) |-> OpOn("DELETE deployment", matching[i].id)]

\* The listing, the matching, and the map() that starts every deletion:
\* each request is issued before any answer is awaited.
FetchList ==
    /\ pc = "fetch_list"
    /\ \/ \E m \in ListFailures :
             /\ calls' = Append(calls, Op("GET deployments"))
             /\ warnings' = warnings \cup
                   {IF NotFound(m) THEN "project absent" ELSE "cloudflare api"}
             /\ pc' = "delete_return"
             /\ UNCHANGED <<deployments, laterPages, pending>>
       \/ \E listed \in FanOutListings : \E later \in FanOutLaterPages(listed) :
             LET matching == matchingDeployments(listed, input.branch)
             IN  /\ deployments' = listed
                 /\ laterPages' = later
                 /\ calls' = Append(calls, Op("GET deployments")) \o Requests(matching)
                 /\ pending' = { matching[i].id : i \in 1..Len(matching) }
                 /\ IF Len(matching) = 0
                      THEN /\ pc' = "delete_return"
                           /\ warnings' = warnings \cup {"no deployments"}
                      ELSE /\ pc' = "fanout"
                           /\ UNCHANGED warnings
    /\ UNCHANGED <<variant, input, api, race, deployOutput, failed, outputs, projectExists, deployUrl,
                   queue, results, summary, ghQueue>>

\* How one DELETE can end: deleted, HTTP 404, HTTP 500, a payload with
\* success: false, or fetch throwing.
DeleteOutcomes == {"ok", "http 404", "http 500", "api error", "exception"}

\* The value the deletion promise resolves to: { id, success }.
deletionSuccess(outcome) == outcome = "ok"

\* One deletion settles; the answers come in any order.
DeleteResponse ==
    /\ pc = "fanout"
    /\ \E i \in pending, o \in DeleteOutcomes :
          /\ pending' = pending \ {i}
          /\ results' = results \cup {[id |-> i, outcome |-> o, success |-> deletionSuccess(o)]}
          /\ warnings' = IF deletionSuccess(o) THEN warnings
                                               ELSE warnings \cup {"deletion"}
    /\ UNCHANGED <<variant, input, api, race, laterPages, deployOutput, deployments, pc, calls, failed, outputs,
                   projectExists, deployUrl, queue, summary, ghQueue>>

\* A summary that counts every settled promise as a success.
summarizeSettled(settled, matched) ==
    <<Cardinality(settled), matched - Cardinality(settled)>>

\* Lines 481-487 after Promise.allSettled: the summary.
summarize(settled, matched) ==
    LET successful == Cardinality({ r \in settled : r.success })
    IN  <<successful, matched - successful>>

Join ==
    /\ pc = "fanout"
    /\ pending = {}
    /\ summary' = summarize(results,
                     Len(matchingDeployments(deployments, input.branch)))
    /\ pc' = "delete_return"
    /\ UNCHANGED <<variant, input, api, race, laterPages, deployOutput, deployments, calls, failed, warnings, outputs,
                   projectExists, deployUrl, queue, pending, results, ghQueue>>

-----------------------------------------------------------------------------
(* part_003: listProjectDeployments, deleteMatchingDeployments,
   managePrDeployments *)

Digits == <<"0", "1", "2", "3", "4", "5", "6", "7", "8", "9">>
IsDigit(c) == \E d \in 1..Len(Digits) : Digits[d] = c
DigitValue(c) == (CHOOSE d \in 1..Len(Digits) : Digits[d] = c) - 1

\* A JavaScript number as far as the retention reads one: NaN or an integer.
NaN == [nan |-> TRUE, value |-> 0]
Number(n) == [nan |-> FALSE, value |-> n]

\* parseInt(text, 10): an optional sign, then the leading digits; NaN when
\* there is no digit to read.
parseInt(text) ==
    LET negative == Len(text) > 0 /\ text[1] = "-"
        body     == IF negative THEN Tail(text) ELSE text
        Value[i \in 0..Len(body)] ==
          IF i = 0 THEN 0
          ELSE IF \A j \in 1..i : IsDigit(body[j])
            THEN 10 * Value[i - 1] + DigitValue(body[i])
            ELSE Value[i - 1]
    IN  IF Len(body) = 0 \/ ~IsDigit(body[1]) THEN NaN
        ELSE IF negative THEN Number(0 - Value[Len(body)])
        ELSE Number(Value[Len(body)])

\* const keepDeployments = parseInt(core.getInput('KEEP_DEPLOYMENTS') || '5', 10)
keepDeployments(inp) == parseInt(OrElse(inp.keepDeployments, <<"5">>))

ForeignAlias == PrPrefix \o <<"2">>
Alias(prefix) == prefix \o <<".">> \o Project \o PagesDev

\* What `wrangler pages deployment list` reports of one deployment.
Listed(i, created, env, aliases) ==
    [id |-> i, created |-> created, environment |-> env, aliases |-> aliases]

\* The k-th of n listed deployments: created at time k (the second at the
\* time of the first when two were created together), the oldest possibly
\* the production deployment, the newest possibly a deployment of another
\* pull request or one without aliases.
PrRecord(k, n, production, other, foreign, tie) ==
    Listed(k, IF tie /\ k = 2 THEN 1 ELSE k,
           IF production /\ k = 1 THEN "production" ELSE "preview",
           IF ~(other /\ k = n) THEN <<Alias(PrPrefix)>>
           ELSE IF foreign THEN <<Alias(ForeignAlias)>> ELSE <<>>)

\* The listings: n deployments, printed newest first or oldest first.
PrListings ==
    { [i \in 1..n |->
         PrRecord(IF newestFirst THEN n + 1 - i ELSE i,
                  n, production, other, foreign, tie)] :
        n \in 0..MaxPrDeployments, newestFirst \in BOOLEAN, production \in BOOLEAN,
        other \in BOOLEAN, foreign \in BOOLEAN, tie \in BOOLEAN }

\* Lines 129-162: the parser keeps the id, the creation time and the aliases
\* of each deployment and nothing else; a deployment without an Aliases line
\* has no aliases property (<<>> here).
parseDeployments(output) ==
    [i \in 1..Len(output) |->
       [id |-> output[i].id, created |-> output[i].created,
        aliases |-> output[i].aliases]]

hasPrefix(deployment, prefix) ==
    \E a \in 1..Len(deployment.aliases) : includes(deployment.aliases[a], prefix)

\* Lines 218-221.
deleteMatchingSelection(listed, prefix) ==
    filter(listed, LAMBDA d : d.aliases # <<>> /\ hasPrefix(d, prefix))

\* matchingDeployments.slice(keepCount): NaN is read as 0.
sliceFrom(s, start) == slice(s, IF start.nan THEN 0 ELSE start.value, Len(s))

\* Lines 259-281; <<>> when the function returns before the loop.
managePrSelection(listed, prefix, keepCount) ==
    LET matching ==
          sort(filter(listed, LAMBDA d :
                        d.aliases # <<>> /\ (prefix = <<>> \/ hasPrefix(d, prefix))),
               LAMBDA a, b : a.created > b.created)
    IN  IF ~keepCount.nan /\ Len(matching) <= keepCount.value THEN <<>>
        ELSE sliceFrom(matching, keepCount)

\* The listing at the head of both functions. A failure that is not
\* "not found" is rethrown and reaches the catch block of run().
ListDeployments ==
    /\ pc \in {"list", "manage_list"}
    /\ calls' = Append(calls, Op("wrangler deployment list"))
    /\ \/ \E e \in WranglerErrors :
             IF NotFound(e)
               THEN /\ warnings' = warnings \cup {"project absent"}
                    /\ pc' = IF pc = "list" THEN "delete_return" ELSE "manage_return"
                    /\ UNCHANGED <<failed, deployments, queue>>
               ELSE /\ SetFailed(<<"Failed to list deployments: ">> \o ExecMessage(e))
                    /\ UNCHANGED <<warnings, deployments, queue>>
       \/ \E output \in PrListings :
             LET listed == parseDeployments(output)
                 doomed == IF pc = "list"
                             THEN deleteMatchingSelection(listed, input.deploymentPrefix)
                             ELSE managePrSelection(listed, input.deploymentPrefix,
                                                    keepDeployments(input))
             IN  /\ deployments' = output
                 /\ queue' = doomed
                 /\ pc' = IF Len(doomed) > 0 THEN "delete_loop"
                          ELSE IF pc = "list" THEN "delete_return" ELSE "manage_return"
                 /\ UNCHANGED <<failed, warnings>>
    /\ UNCHANGED <<variant, input, api, race, laterPages, deployOutput, outputs, projectExists, deployUrl, pending,
                   results, summary, ghQueue>>

\* One turn of the loop: deleteDeployment answers true or false, and the
\* loop goes on either way.
DeleteLoop ==
    /\ pc = "delete_loop"
    /\ calls' = Append(calls, OpOn("wrangler deployment delete", Head(queue).id))
    /\ queue' = Tail(queue)
    /\ \E success \in BOOLEAN :
          warnings' = IF success THEN warnings ELSE warnings \cup {"deletion"}
    /\ pc' = IF Tail(queue) # <<>> THEN "delete_loop"
             ELSE IF input.event = "delete" THEN "delete_return" ELSE "manage_return"
    /\ UNCHANGED <<variant, input, api, race, laterPages, deployOutput, deployments, failed, outputs, projectExists,
                   deployUrl, pending, results, summary, ghQueue>>

\* A function of the Cloudflare side returns to run(): its locals are gone.
\* A return that ends the run when a deletion had failed.
ReturnToEndAfterFailure(v, inp, at) ==
    CASE at = "cleanup_return" -> "delete_retry"
      [] at = "manage_return" -> "done"
      [] at = "delete_return" /\ "deletion" \in warnings -> "done"
      [] OTHER -> AfterCloudflare(v, inp)

ReturnTo(v, inp, at) ==
    CASE at = "cleanup_return" -> "delete_retry"
      [] at = "manage_return" -> "done"
      [] OTHER -> AfterCloudflare(v, inp)

Return ==
    /\ pc \in {"deploy_return", "cleanup_return", "delete_return", "manage_return"}
    /\ pc' = ReturnTo(variant, input, pc)
    /\ deployOutput' = <<>>
    /\ deployments' = <<>>
    /\ laterPages' = <<>>
    /\ queue' = <<>>
    /\ pending' = {}
    /\ results' = {}
    /\ UNCHANGED <<variant, input, api, race, calls, failed, warnings, outputs, projectExists,
                   deployUrl, summary, ghQueue>>

-----------------------------------------------------------------------------
(* The run *)

Next ==
    \/ Validate
    \/ CheckProject
    \/ CreateProject
    \/ AccessFolder
    \/ ProcessHeaders
    \/ WranglerDeploy
    \/ LinkCreate
    \/ LinkStatus
    \/ Comment
    \/ CleanupComment
    \/ DeactivateList
    \/ DeactivateStatus
    \/ DeleteProject
    \/ DeleteProjectRetry
    \/ DeleteProjectApi
    \/ CleanupList
    \/ CleanupDelete
    \/ FetchList
    \/ DeleteResponse
    \/ Join
    \/ ListDeployments
    \/ DeleteLoop
    \/ Return

Spec == Init /\ [][Next]_vars

-----------------------------------------------------------------------------
(* The request helper on its own *)

Statuses == {"200", "201", "400", "401", "403", "404", "409", "429", "500", "502", "503"}

JsonBodies ==
    { <<"{\"success\":false}">>,
      <<"{", " ", "\"success\":false", " ", "}">>,
      <<"{\"errors\":[{\"code\":", "404", "}]}">> }

OtherBodies == { <<>>, <<"<html>Bad gateway</html>">>, <<"upstream ", "404">> }

\* Every answer the helper can get: a status with a body that is JSON or is
\* not, or no answer at all.
HelperResponses ==
    { [net |-> TRUE, status |-> st, json |-> TRUE, body |-> b] :
        st \in Statuses, b \in JsonBodies } \cup
    { [net |-> TRUE, status |-> st, json |-> FALSE, body |-> b] :
        st \in Statuses, b \in OtherBodies } \cup
    { [net |-> FALSE, status |-> "-", json |-> FALSE, body |-> <<"ECONNRESET">>] }

InitApi ==
    /\ variant \in {"index", "part_001"}
    /\ input = DefaultInput
    /\ pc = "request"
    /\ api \in { [response |-> r, result |-> Resolve] : r \in HelperResponses }
    /\ calls = <<>> /\ failed = <<>> /\ warnings = {} /\ outputs = <<>>
    /\ projectExists = "unknown" /\ deployUrl = <<>> /\ deployOutput = <<>>
    /\ deployments = <<>> /\ laterPages = <<>> /\ queue = <<>> /\ pending = {}
    /\ results = {} /\ summary = <<>> /\ ghQueue = <<>> /\ race = <<>>

\* res.on('end') or req.on('error'): the promise settles.
Settle ==
    /\ pc = "request"
    /\ pc' = "settled"
    /\ api' = [api EXCEPT !.result =
                  IF variant = "index" THEN cloudflareApiRequest(api.response)
                  ELSE cloudflareApiRequestParseFirst(api.response)]
    /\ UNCHANGED <<variant, input, calls, failed, warnings, outputs, projectExists,
                   deployUrl, deployOutput, deployments, laterPages, queue, pending,
                   results, summary, ghQueue, race>>

NextApi == Settle

SpecApi == InitApi /\ [][NextApi]_vars

-----------------------------------------------------------------------------
(* Two deploy runs of part_001 or part_003 on one project *)

Runs == {1, 2}

AlreadyExists == <<"A project with this name ", "already exists">>

\* What the platform answers to GET project: the project if it is there, 404
\* if it is not, or a failure of the platform or of the network.
ProjectAnswers(present) ==
    { r \in ApiResponses :
        \/ r.status = (IF present THEN "200" ELSE "404")
        \/ ~r.net
        \/ r.status = "500" /\ r.body = <<"internal error">> }

\* What it answers to POST project: a project with a taken name is refused.
CreateAnswers(present) ==
    IF present
      THEN { [net |-> TRUE, status |-> "409", json |-> TRUE, body |-> AlreadyExists] }
      ELSE { r \in ApiResponses : r.status = "200" \/ ~r.net }

\* `wrangler pages project list`, and `wrangler pages project create` (<<>>
\* for exit code 0, otherwise its stderr).
ListingAnswers(present) == {IF present THEN "listed" ELSE "not listed", "failed"}

WranglerCreateAnswers(present) ==
    IF present THEN { AlreadyExists } ELSE { <<>>, <<"Authentication error">> }

Run(at, exists, message) == [pc |-> at, exists |-> exists, failed |-> message]

InitRace ==
    /\ variant \in {"part_001", "part_003"}
    /\ input \in { [DefaultInput EXCEPT !.createProjectIfMissing = c] : c \in {"true", "false"} }
    /\ pc = "runs"
    /\ race = [present |-> FALSE,
               runs |-> [p \in Runs |-> Run("check_project", "unknown", <<>>)]]
    /\ calls = <<>> /\ failed = <<>> /\ warnings = {} /\ outputs = <<>>
    /\ projectExists = "unknown" /\ deployUrl = <<>> /\ deployOutput = <<>>
    /\ deployments = <<>> /\ laterPages = <<>> /\ queue = <<>> /\ pending = {}
    /\ results = {} /\ summary = <<>> /\ ghQueue = <<>> /\ api = <<>>

RaceFrame ==
    UNCHANGED <<variant, input, pc, failed, warnings, outputs, projectExists, deployUrl,
                deployOutput, deployments, laterPages, queue, pending, results,
                summary, ghQueue, api>>

\* Run p asks whether the project exists and takes the branch of run().
RaceCheck(p) ==
    /\ pc = "runs"
    /\ race.runs[p].pc = "check_project"
    /\ \E found \in
            IF variant = "part_001"
              THEN { checkProjectExistsApi(r) : r \in ProjectAnswers(race.present) }
              ELSE { checkProjectExistsWrangler(l) : l \in ListingAnswers(race.present) } :
          race' = [race EXCEPT !.runs[p] =
                     IF found.exists = "error"
                       THEN Run("done", "error", found.rethrown)
                     ELSE IF AfterCheck(variant, input, found.exists) = "throw"
                       THEN Run("done", found.exists, NotCreatedMessage)
                     ELSE Run(AfterCheck(variant, input, found.exists), found.exists, <<>>)]
    /\ calls' = Append(calls, OpOn("check", p))
    /\ RaceFrame

\* Run p asks for the creation; the platform creates the project unless it
\* is there already.
RaceCreate(p) ==
    /\ pc = "runs"
    /\ race.runs[p].pc = "create_project"
    /\ \E message \in
            IF variant = "part_001"
              THEN { cloudflareApiRequestParseFirst(r).message :
                       r \in CreateAnswers(race.present) }
              ELSE { IF e = <<>> THEN <<>> ELSE ExecMessage(e) :
                       e \in WranglerCreateAnswers(race.present) } :
          race' = IF message = <<>>
                    THEN [race EXCEPT !.present = TRUE,
                                      !.runs[p] = Run("access", "no", <<>>)]
                    ELSE [race EXCEPT !.runs[p] =
                            Run("done", "no", <<"Failed to create project: ">> \o message)]
    /\ calls' = Append(calls, OpOn("create", p))
    /\ RaceFrame

\* Run p reaches deployToCloudflare.
RaceUpload(p) ==
    /\ pc = "runs"
    /\ race.runs[p].pc = "access"
    /\ race' = [race EXCEPT !.runs[p].pc = "uploaded"]
    /\ calls' = Append(calls, OpOn("upload", p))
    /\ RaceFrame

NextRace == \E p \in Runs : RaceCheck(p) \/ RaceCreate(p) \/ RaceUpload(p)

SpecRace == InitRace /\ [][NextRace]_vars

-----------------------------------------------------------------------------
(* Properties *)

Called(name) == Issued(name) # {}

Accepted == ValidationError(variant, input) = <<>>

DeployFlow == Accepted /\ input.event = "deploy"

DeployExitedNonZero ==
    \E i \in Issued("wrangler pages deploy") : calls[i].id[1] = "exit 1"

GitHubWrites == {"createDeployment", "createDeploymentStatus success", "createComment"}

\* C1: whenever `wrangler pages deploy` exits non-zero the run ends failed:
\* setFailed was called, the url output was never set, and no GitHub
\* deployment, deployment status or comment was created. In every version.
C1_DeployFailureIsFatal ==
    DeployExitedNonZero =>
        /\ pc = "done"
        /\ Len(failed) = 1
        /\ outputs = <<>>
        /\ \A op \in GitHubWrites : ~Called(op)

C1_Witness ==
    /\ DeployExitedNonZero
    /\ variant = "index"
    /\ input.githubToken /\ input.pullRequest
    /\ failed # <<>>

\* C2: in the versions whose deploy flow starts with the folder (index.mjs,
\* part_000, part_002), when the artifact directory is not accessible the
\* deploy primitive is never invoked and the run ends failed, once, with a
\* message that contains the directory path; the run can rest nowhere short
\* of that.
C2_MissingFolderIsFatal ==
    (DeployFlow /\ ~input.folderAccessible
       /\ variant \in {"index", "part_000", "part_002"}) =>
        /\ ~Called("wrangler pages deploy")
        /\ pc \in {"start", "access", "done"}
        /\ pc = "done" => Len(failed) = 1 /\ includes(failed[1], DistFolder)

C2_Witness ==
    /\ variant = "part_002"
    /\ ~input.folderAccessible
    /\ Called("fs.access")
    /\ pc = "done"
    /\ failed # <<>>

ProjectCreations == {"POST project", "wrangler project create"}

\* C3: in the deploy flow of part_001 and part_003, when the project does not
\* exist and CREATE_PROJECT_IF_MISSING is "false", the run ends failed and
\* neither the project creation nor the deploy primitive is invoked.
C3_NoCreationWhenDisabled ==
    (DeployFlow /\ variant \in {"part_001", "part_003"}
       /\ input.createProjectIfMissing = "false" /\ projectExists = "no") =>
        /\ pc = "done"
        /\ failed # <<>>
        /\ \A op \in ProjectCreations : ~Called(op)
        /\ ~Called("wrangler pages deploy")

NetworkCalls ==
    {"GET project", "wrangler project list", "wrangler pages deploy"}
    \cup ProjectCreations

\* C4: in the deploy flow, when the asset folder is inaccessible no
\* project-existence check, no project creation and no deploy request is ever
\* made: the failure on the folder comes first.
C4_FolderCheckedBeforeNetwork ==
    (DeployFlow /\ ~input.folderAccessible) =>
        \A op \in NetworkCalls : ~Called(op)

LastCall == calls[Len(calls)].op

RejectedFor(messages) == calls = <<>> /\ failed[1][2] \in messages

FailedAt(ops) == calls # <<>> /\ LastCall \in ops

ProjectAbsentAndNotCreated ==
    /\ FailedAt({"GET project", "wrangler project list"})
    /\ failed[1] = <<"Action failed: ">> \o NotCreatedMessage

ListedFatalCauses ==
    \/ RejectedFor({"EVENT must be either ",
                    "Input required and not supplied",
                    "Required inputs CLOUDFLARE_API_TOKEN, CLOUDFLARE_ACCOUNT_ID, and PROJECT_NAME must be non-empty"})
    \/ FailedAt({"fs.access", "wrangler pages deploy"} \cup ProjectCreations)
    \/ ProjectAbsentAndNotCreated

CommentDue ==
    ~CommentSkipped(variant, input) /\ CommentStep(variant, input) = "comment"

PastComment == pc \in {"done", "manage_list", "delete_loop", "manage_return"}

\* C6: in the deploy flow a failure of createDeployment, of
\* createDeploymentStatus or of createComment leaves the run successful:
\* the url output stays set, setFailed is not called for it (the one step
\* that can still fail the run afterwards is the retention listing of
\* part_003), and after a failed link step the comment is posted wherever
\* it would have been posted after a successful one.
C6_GitHubFailuresAreNotFatal ==
    (DeployFlow /\ warnings \cap {"link", "comment"} # {}) =>
        /\ outputs = <<deployUrl>> /\ deployUrl # <<>>
        /\ failed # <<>> => variant = "part_003" /\ FailedAt({"wrangler deployment list"})
        /\ ("link" \in warnings /\ PastComment /\ CommentDue) => Called("createComment")

C6_Witness ==
    /\ variant = "index"
    /\ DeployFlow
    /\ {"link", "comment"} \subseteq warnings
    /\ Called("createComment")
    /\ pc = "done"
    /\ failed = <<>>

FanOut == Accepted /\ variant = "part_000" /\ input.event = "delete-deployment"

DeletionsOf(i) == { k \in Issued("DELETE deployment") : calls[k].id = i }

\* C7: in the delete-deployment fan-out of part_000, whatever subset of the
\* deletion requests fails and however each of them fails, exactly one
\* deletion request is issued for each matched deployment and none for any
\* other, the summary is <<number that succeeded, number that failed>>, and
\* the run is not failed.
C7_FanOutCountsAreExact ==
    FanOut =>
        /\ failed = <<>>
        /\ (pc \in {"fanout", "delete_return"} /\ deployments # <<>>) =>
              LET matched == matchingDeployments(deployments, input.branch)
                  ids == { matched[i].id : i \in 1..Len(matched) }
              IN  /\ \A i \in 1..Len(deployments) :
                        Cardinality(DeletionsOf(deployments[i].id)) =
                          IF deployments[i].id \in ids THEN 1 ELSE 0
                  /\ (pc = "delete_return" /\ ids # {}) =>
                        /\ { r.id : r \in results } = ids
                        /\ summary =
                             << Cardinality({ r \in results : r.outcome = "ok" }),
                                Cardinality({ r \in results : r.outcome # "ok" }) >>

C7_Witness ==
    /\ FanOut
    /\ pc = "delete_return"
    /\ summary = <<2, 1>>
    /\ \E r \in results : r.outcome = "exception"
    /\ Len(deployments) = 3

ProjectDeletions == Issued("wrangler project delete")

\* C8: in index.mjs, a whole-project deletion that fails with "too many
\* deployments" is followed by one bulk cleanup pass and then by exactly one
\* more attempt; the project deletion is attempted at most twice, and a
\* second attempt follows only a first one that failed with that condition.
C8_OneRetryAfterTooMany ==
    variant = "index" =>
        /\ Cardinality(ProjectDeletions) <= 2
        /\ \A i, j \in ProjectDeletions :
              i < j =>
                /\ TooMany(calls[i].id)
                /\ Cardinality({ k \in Issued("GET deployments") : i < k /\ k < j }) = 1
                /\ \A k \in (i + 1)..(j - 1) :
                      calls[k].op \in {"GET deployments", "DELETE deployment"}
        /\ \A i \in ProjectDeletions :
              (TooMany(calls[i].id) /\ Cardinality(ProjectDeletions) = 1) =>
                 pc \in {"cleanup_list", "cleanup_delete", "cleanup_return", "delete_retry"}

C8_Witness ==
    /\ variant = "index"
    /\ Cardinality(ProjectDeletions) = 2
    /\ Called("DELETE deployment")
    /\ pc = "done"
    /\ failed = <<>>

Deleted ==
    { calls[k].id : k \in Issued("DELETE deployment")
                       \cup Issued("wrangler deployment delete") }

Selected == Deleted \cup { queue[k].id : k \in 1..Len(queue) }

CleanupPass ==
    variant = "index" /\ pc \in {"cleanup_delete", "cleanup_return"} /\ deployments # <<>>

Deletable == { i \in 1..Len(deployments) : deployments[i].environment # "production" }

NewerDeletable(i) ==
    { j \in Deletable : deployments[j].created_on > deployments[i].created_on }

OldestBeyondFive ==
    { deployments[i].id : i \in { d \in Deletable : Cardinality(NewerDeletable(d)) >= 5 } }

\* C9: the bulk cleanup pass of index.mjs selects, of the n deployments that
\* are not the protected production deployment, exactly the max(0, n - 5)
\* oldest: it deletes none of the 5 most recent, and when no request fails
\* it deletes all the others.
C9_CleanupKeepsFiveMostRecent ==
    CleanupPass =>
        /\ Deleted \subseteq OldestBeyondFive
        /\ pc = "cleanup_delete" => Selected = OldestBeyondFive
        /\ (pc = "cleanup_return" /\ "cleanup" \notin warnings) =>
              Deleted = OldestBeyondFive

RetentionPass ==
    /\ deployments # <<>>
    /\ \/ CleanupPass
       \/ /\ variant = "part_003" /\ input.event = "deploy"
          /\ pc \in {"delete_loop", "manage_return"}

CreatedOn(d) == IF variant = "index" THEN d.created_on ELSE d.created

OldestAndOnlyProduction(i) ==
    /\ deployments[i].environment = "production"
    /\ \A j \in 1..Len(deployments) :
          j # i => /\ deployments[j].environment # "production"
                   /\ CreatedOn(deployments[j]) > CreatedOn(deployments[i])

\* C10: in the retention cleanup of index.mjs (cleanupDeployments) and of
\* part_003 (managePrDeployments), when the listing holds one production
\* deployment and it is the oldest of all, that deployment is never selected
\* for deletion.
C10_OldestProductionIsRetained ==
    RetentionPass =>
        \A i \in 1..Len(deployments) :
            OldestAndOnlyProduction(i) => deployments[i].id \notin Selected

Productions ==
    { i \in 1..Len(deployments) : deployments[i].environment = "production" }

MostRecentProduction(i) ==
    /\ i \in Productions
    /\ \A j \in Productions \ {i} :
          deployments[j].created_on < deployments[i].created_on

\* C11: when the listing of the bulk cleanup of index.mjs holds several
\* production deployments, the most recently created of them is the one
\* that is protected: it is never selected for deletion.
C11_MostRecentProductionIsProtected ==
    (CleanupPass /\ Cardinality(Productions) > 1) =>
        \A i \in 1..Len(deployments) :
            MostRecentProduction(i) => deployments[i].id \notin Selected

Reverse(s) == [i \in 1..Len(s) |-> s[Len(s) + 1 - i]]

Ids(s) == { s[i].id : i \in 1..Len(s) }

\* C12: the retention selection does not depend on the order of the
\* listing: what cleanupDeployments (index.mjs) and managePrDeployments
\* (part_003) select for deletion is what they would have selected had the
\* same deployments been listed in the reverse order, also when two of them
\* have the same creation time.
C12_SelectionIgnoresListingOrder ==
    /\ (variant = "index" /\ pc = "cleanup_delete") =>
          Selected = Ids(deploymentsToActuallyDelete(Reverse(deployments)))
    /\ (variant = "part_003" /\ input.event = "deploy" /\ pc = "delete_loop") =>
          Selected = Ids(managePrSelection(parseDeployments(Reverse(deployments)),
                                           input.deploymentPrefix,
                                           keepDeployments(input)))

HasLine(phrase, url) ==
    \E i \in 1..Len(deployOutput) :
        deployOutput[i].phrase = phrase /\ deployOutput[i].url = url

Extracted == pc = "deploy_return"

\* C13: in index.mjs and part_003, for every output of the deploy tool that
\* contains "Deployment alias URL: https://x.test" and "Successfully
\* deployed to https://y.test", in either order, the URL extracted and
\* emitted is https://x.test.
C13_AliasBeatsGenericPhrase ==
    (Extracted /\ variant \in {"index", "part_003"}
       /\ HasLine("Deployment alias URL:", UrlAlias)
       /\ HasLine("Successfully deployed to", UrlOther)) =>
        deployUrl = UrlAlias /\ outputs = <<UrlAlias>>

Undecorated(out) == [i \in 1..Len(out) |-> [out[i] EXCEPT !.deco = "none"]]

\* C14: in index.mjs and part_000 a decorative symbol next to a phrase does
\* not change which URL is extracted: the URL extracted from an output is
\* the URL extracted from the same output without its symbols.
C14_SymbolDoesNotMatter ==
    (Extracted /\ variant \in {"index", "part_000"}) =>
        deployUrl = DeployOutcome(variant, Undecorated(deployOutput), input.branch).url

VendorPhrases ==
    {"Deployment alias URL:", "Deployment complete! Take a peek over at",
     "View your deployed site at", "Successfully deployed to", "Preview URL"}

NoRecognizedPhrase ==
    \A i \in 1..Len(deployOutput) : deployOutput[i].phrase \notin VendorPhrases

DemoPagesDev ==
    <<"d", "e", "m", "o", ".", "p", "a", "g", "e", "s", ".", "d", "e", "v">>

\* C15: in every version that guesses (all but part_002), when the output
\* holds no recognized phrase the URL returned and emitted is
\* https://demo.pages.dev for branch main and https://x.demo.pages.dev for
\* branch x, and the warning that marks it as a guess was logged.
C15_GuessedUrl ==
    (Extracted /\ variant # "part_002" /\ NoRecognizedPhrase) =>
        /\ deployUrl =
             Https \o (IF input.branch = Main THEN <<>> ELSE <<"x", ".">>) \o DemoPagesDev
        /\ outputs = <<deployUrl>>
        /\ "no url" \in warnings

C15_Witness ==
    /\ Extracted
    /\ variant = "index"
    /\ input.branch = BranchX
    /\ Len(deployOutput) = 1 /\ NoRecognizedPhrase
    /\ deployUrl = Https \o <<"x", ".">> \o DemoPagesDev

DeploySucceeded ==
    \E i \in Issued("wrangler pages deploy") : calls[i].id = Exit0

\* C16: the url output is set exactly when the deploy primitive exited
\* successfully: then one non-empty URL has been emitted, and otherwise (a
\* delete run, a failed deploy, a run that never reached the deploy) none.
C16_UrlEmittedIffDeployed ==
    IF DeploySucceeded
      THEN Len(outputs) = 1 /\ outputs[1] # <<>>
      ELSE outputs = <<>>

Requested == { calls[k].id : k \in Issued("DELETE deployment") }

Matches(Criterion(_)) ==
    { deployments[i].id : i \in { j \in 1..Len(deployments) : Criterion(deployments[j]) } }

ByBranch == Matches(LAMBDA d : d.branch = input.branch)

ByUrl == Matches(LAMBDA d : includes(d.url, branchFormatted(input.branch)))

ByAlias ==
    Matches(LAMBDA d : \E a \in 1..Len(d.aliases) :
                          includes(d.aliases[a], branchFormatted(input.branch)))

DeleteFlow ==
    \/ FanOut /\ pc \in {"fanout", "delete_return"}
    \/ /\ variant = "part_003" /\ input.event = "delete"
       /\ pc \in {"delete_loop", "delete_return"}

\* C18: in the delete flows of part_000 (by branch) and part_003 (by alias
\* prefix), neither of which takes a deployment id as an input, no deletion
\* is requested for a listed deployment whose environment is production.
C18_ProductionIsNeverDeleted ==
    DeleteFlow =>
        \A i \in 1..Len(deployments) :
            deployments[i].environment = "production" => deployments[i].id \notin Deleted

ByPrefix ==
    Matches(LAMBDA d : \E a \in 1..Len(d.aliases) :
                          includes(d.aliases[a], input.deploymentPrefix))

ProjectDeletionRun ==
    /\ Accepted
    /\ \/ variant \in {"index", "part_001"} /\ input.event = "delete"
       \/ variant = "part_000" /\ input.event = "delete-project"

\* The project was reported not found: to the deletion command (index.mjs,
\* part_000), or to the check that precedes it (part_001).
ProjectReportedNotFound ==
    \/ /\ variant \in {"index", "part_000"}
       /\ \E i \in ProjectDeletions : calls[i].id = Exit1(<<"Project ", "not found">>)
    \/ variant = "part_001" /\ projectExists = "no"

CleanupCommentDue ==
    ~CommentSkipped(variant, input) /\ CommentStep(variant, input) = "cleanup_comment"

\* C19: in index.mjs, part_000 and part_001, a project-deletion run whose
\* project is reported not found never calls setFailed, and when it has
\* ended the steps of the PR cleanup were attempted: with a token, the
\* deployments of the pull request were listed for deactivation and the
\* cleanup comment was posted wherever it is due.
C19_AbsentProjectIsNotFatal ==
    (ProjectDeletionRun /\ ProjectReportedNotFound) =>
        /\ failed = <<>>
        /\ (pc = "done" /\ input.githubToken) =>
              /\ input.pullRequest => Called("listDeployments")
              /\ CleanupCommentDue => Called("createComment")

C19_Witness ==
    /\ variant = "part_000"
    /\ ProjectDeletionRun /\ ProjectReportedNotFound
    /\ pc = "done"
    /\ failed = <<>>
    /\ "project absent" \in warnings
    /\ Called("listDeployments") /\ Called("createComment")

AnsweredAsDone == {"ok", "http 404"}

\* C20: in the branch deletion of part_000 a deletion answered 404, the
\* deployment being not found, counts as a success: the summary counts the
\* deletions answered with success or with 404 as successful and the others
\* as failed.
C20_NotFoundCountsAsSuccess ==
    (FanOut /\ pc = "delete_return" /\ results # {}) =>
        summary = << Cardinality({ r \in results : r.outcome \in AnsweredAsDone }),
                     Cardinality({ r \in results : r.outcome \notin AnsweredAsDone }) >>

\* The checks that found the project absent: the API answered with status
\* 404, or the listing of the projects succeeded and does not hold it.
FoundAbsent ==
    { i \in Issued("GET project") : calls[i].id = "404" } \cup
    { i \in Issued("wrangler project list") : calls[i].id = "not listed" }

Creations == Issued("POST project") \cup Issued("wrangler project create")

\* C21: in part_001 and part_003 the project is created only after a check
\* that found it absent (status 404, or a listing without it): after any
\* other failure of the check no creation is attempted.
C21_AbsentOnlyOn404 ==
    \A k \in Creations : \E i \in FoundAbsent : i < k

Listing == pc \in {"fanout", "delete_return", "cleanup_delete", "cleanup_return"}

\* C22: once the listing has answered, in the cleanup of index.mjs and the
\* branch deletion of part_000, the deployments in hand are all the
\* deployments of the project, whatever page of the remote listing holds
\* them; so in part_000 every deployment of the project with the branch in
\* its metadata has its deletion requested; and an empty project gives an
\* empty listing and no failure.
C22_ListingCoversAllPages ==
    (variant \in {"index", "part_000"} /\ Listing /\ Called("GET deployments")) =>
        /\ \A k \in 1..Len(laterPages) :
              \E i \in 1..Len(deployments) : deployments[i].id = laterPages[k].id
        /\ FanOut =>
              \A k \in 1..Len(laterPages) :
                  laterPages[k].branch = input.branch => laterPages[k].id \in Requested
        /\ (deployments = <<>> /\ laterPages = <<>>) => failed = <<>>

GitHubRequests ==
    { i \in 1..Len(calls) :
        calls[i].op \in {"createDeployment", "createDeploymentStatus success",
                         "listDeployments", "createDeploymentStatus inactive",
                         "createComment"} }

\* C23: in every version, a run that was given no GITHUB_TOKEN issues no
\* GitHub request (create deployment, create status, list deployments,
\* create comment), and it is not rejected for the missing token: if it has
\* failed before any call, its required inputs, its EVENT or a boolean input
\* are at fault.
C23_NoTokenNoGitHubRequest ==
    ~input.githubToken =>
        /\ GitHubRequests = {}
        /\ (failed # <<>> /\ calls = <<>>) =>
              \/ input.required # "ok"
              \/ input.event \notin AcceptedEvents(variant)
              \/ ~IsBoolean(input.createProjectIfMissing)
              \/ ~IsBoolean(input.cleanupOldDeployments)

C23_Witness ==
    /\ ~input.githubToken /\ input.pullRequest /\ input.commentOnPr = "true"
    /\ variant = "part_000"
    /\ DeployFlow
    /\ pc = "done"
    /\ failed = <<>>
    /\ outputs # <<>>
    /\ GitHubRequests = {}

\* C24: in index.mjs and part_000 a comment is requested only in a run that
\* was given a GITHUB_TOKEN and whose switch is "true": COMMENT_ON_PR for
\* the comment of a deploy, COMMENT_ON_PR_CLEANUP for the comment of a
\* cleanup; so with both left at "false" no comment is ever requested.
C24_CommentsOnlyWhenSwitchedOn ==
    (variant \in {"index", "part_000"} /\ Called("createComment")) =>
        /\ input.githubToken
        /\ IF input.event = "deploy" THEN input.commentOnPr = "true"
                                     ELSE input.commentOnPrCleanup = "true"

\* C25: in index.mjs and part_000 a run that was not triggered by a pull
\* request issues no GitHub request from the link, unlink and comment steps.
C25_NoGitHubRequestOutsidePullRequest ==
    (variant \in {"index", "part_000"} /\ ~input.pullRequest) => GitHubRequests = {}

\* C25 as amended: in every version a run that was not triggered by a pull
\* request creates no GitHub deployment or status and lists none, and logs
\* no warning for these steps; it requests a comment only in part_000 and
\* only for the pull request that the PR_NUMBER input names.
C25_NoOpWithoutPullRequestOrNumber ==
    ~input.pullRequest =>
        /\ \A i \in GitHubRequests :
              /\ calls[i].op = "createComment"
              /\ variant = "part_000"
              /\ input.prNumberInput # <<>>
        /\ warnings \cap {"link", "deactivate"} = {}

C25_Witness ==
    /\ variant = "index"
    /\ input.githubToken /\ ~input.pullRequest
    /\ DeployFlow
    /\ pc = "done"
    /\ failed = <<>>
    /\ outputs # <<>>
    /\ GitHubRequests = {}

\* The PR number of the run: PR_NUMBER when given, else the trigger's.
AnnotatedPr ==
    IF input.prNumberInput # <<>> THEN input.prNumberInput
    ELSE IF input.pullRequest THEN ContextPrNumber ELSE <<>>

\* C26: in part_000 every request that links or unlinks names the
\* environment preview/pr-N and every comment goes to pull request N, where
\* N is the PR_NUMBER input when given and the trigger's PR number otherwise.
C26_OnePrNumberPerRun ==
    variant = "part_000" =>
        /\ \A i \in Issued("createDeployment") \cup Issued("listDeployments") :
              calls[i].id = <<"preview", "/pr-">> \o AnnotatedPr
        /\ \A i \in Issued("createComment") : calls[i].id = AnnotatedPr

\* The deletion of deployments is about to return and nothing that was
\* listed matches its criterion (branch or URL in part_000, alias prefix in
\* part_003); this includes an empty listing.
NothingMatched ==
    /\ pc = "delete_return"
    /\ \/ FanOut /\ ByBranch = {} /\ ByUrl = {}
       \/ variant = "part_003" /\ input.event = "delete" /\ ByPrefix = {}

\* C27: when the deletion of deployments returns with nothing matched, no
\* deletion was requested and nothing has failed, and the run goes on to
\* the PR cleanup: to the deactivation of the GitHub deployments if it has
\* a token, and to its end, not failed, if it has none.
C27_NoMatchIsNotAnError ==
    [][NothingMatched =>
          /\ Deleted = {}
          /\ failed = <<>> /\ failed' = <<>>
          /\ pc' = IF input.githubToken THEN "deactivate" ELSE "done"]_vars

C27_Witness ==
    /\ FanOut
    /\ NothingMatched
    /\ Len(deployments) = 2
    /\ "no deployments" \in warnings
    /\ input.githubToken

DocumentedEvents == {"deploy", "delete-deployment", "delete-project"}

RejectedBeforeAnyCall == pc = "done" /\ failed # <<>> /\ calls = <<>>

\* C28: in index.mjs and part_000, for a run whose required inputs are
\* given: EVENT deploy, delete-deployment or delete-project is accepted and
\* takes its own flow (a deploy deletes nothing, a deletion deploys
\* nothing, only delete-project deletes the project); any other EVENT ends
\* the run failed before any external call.
C28_ExactlyThreeEvents ==
    (variant \in {"index", "part_000"} /\ input.required = "ok" /\ pc # "start") =>
        IF input.event \in DocumentedEvents
          THEN /\ ~RejectedBeforeAnyCall
               /\ input.event = "deploy" =>
                     ~Called("wrangler project delete") /\ ~Called("DELETE deployment")
               /\ input.event # "deploy" => ~Called("wrangler pages deploy")
               /\ input.event = "delete-deployment" => ~Called("wrangler project delete")
          ELSE RejectedBeforeAnyCall

\* The alias names the prefix: it begins with the prefix and a dot follows.
NamesPrefix(alias, prefix) ==
    /\ Len(alias) > Len(prefix)
    /\ SubSeq(alias, 1, Len(prefix)) = prefix
    /\ alias[Len(prefix) + 1] = "."

\* C29: in part_003 with EVENT delete, a deployment whose deletion is
\* requested has an alias that names the prefix (pr-1.demo.pages.dev for
\* the prefix pr-1, and not pr-12.demo.pages.dev); and with an empty prefix
\* no deletion is requested.
C29_OnlyThePrefixIsDeleted ==
    (variant = "part_003" /\ input.event = "delete") =>
        /\ input.deploymentPrefix = <<>> => ~Called("wrangler deployment delete")
        /\ pc \in {"delete_loop", "delete_return"} =>
              \A i \in 1..Len(deployments) :
                  deployments[i].id \in Deleted =>
                      \E a \in 1..Len(deployments[i].aliases) :
                          NamesPrefix(deployments[i].aliases[a], input.deploymentPrefix)

\* The deployments the post-deploy cleanup of part_003 counts: those with an
\* alias that holds the prefix, or with any alias when the prefix is empty.
Counted ==
    { i \in 1..Len(deployments) :
        /\ deployments[i].aliases # <<>>
        /\ input.deploymentPrefix = <<>> \/ hasPrefix(deployments[i], input.deploymentPrefix) }

\* The number to keep: KEEP_DEPLOYMENTS read as a number, 5 when it is empty
\* or not a number.
KeepCount ==
    LET k == parseInt(input.keepDeployments)
    IN  IF k.nan THEN 5 ELSE k.value

Max(a, b) == IF a > b THEN a ELSE b

\* C30: in the post-deploy cleanup of part_003, for every KEEP_DEPLOYMENTS
\* input, max(0, n - keepCount) deletions are selected among the n counted
\* deployments, and no deployment that has fewer than keepCount other counted
\* deployments as new or newer is among them.
C30_KeepsTheNewest ==
    (variant = "part_003" /\ input.event = "deploy"
       /\ pc \in {"delete_loop", "manage_return"} /\ deployments # <<>>) =>
        /\ Cardinality(Selected) = Max(0, Cardinality(Counted) - KeepCount)
        /\ \A i \in Counted :
              Cardinality({ j \in Counted \ {i} :
                              deployments[j].created >= deployments[i].created }) < KeepCount
                  => deployments[i].id \notin Selected

HeaderWrites == Issued("fs.writeFile _headers.json")

PastHeaders == Called("wrangler pages deploy") \/ pc = "wrangler"

\* C31: in every version, HEADERS that is a non-empty JSON object is
\* written as given to the sidecar file, once, before the deploy command is
\* run; for HEADERS {} (and for text that is not JSON) nothing is written;
\* and a run that logged the header warning (invalid JSON, failed write)
\* does not fail for it: the deploy command is run next.
C31_HeadersSidecar ==
    DeployFlow =>
        /\ \A i \in HeaderWrites :
              /\ input.headers = "{\"version.json\":{}}"
              /\ calls[i].id = input.headers
              /\ \A k \in Issued("wrangler pages deploy") : i < k
        /\ Cardinality(HeaderWrites) <= 1
        /\ input.headers \in {"{}", "not json"} => HeaderWrites = {}
        /\ (PastHeaders /\ input.headers = "{\"version.json\":{}}") => HeaderWrites # {}
        /\ ("headers" \in warnings /\ pc = "done") => Called("wrangler pages deploy")
        /\ ("headers" \in warnings /\ pc = "wrangler") => failed = <<>>

C31_Witness ==
    /\ variant = "index"
    /\ DeployFlow
    /\ input.headers = "{\"version.json\":{}}"
    /\ "headers" \in warnings
    /\ HeaderWrites # {}
    /\ DeploySucceeded
    /\ pc = "done"
    /\ failed = <<>>

\* C32: in index.mjs and part_001, for every answer whose status is not 2xx,
\* with a JSON body or any other, the helper rejects with a message that
\* holds the status and the body as it was received.
C32_ErrorCarriesStatusAndBody ==
    (pc = "settled" /\ api.response.net
       /\ api.response.status \notin {"200", "201"}) =>
        /\ ~api.result.ok
        /\ includes(api.result.message, <<api.response.status>>)
        /\ includes(api.result.message, api.response.body)

\* C33: in the deploy flow of part_001 and part_003 a project creation is
\* requested only after the check answered that the project is absent and
\* only with CREATE_PROJECT_IF_MISSING enabled; and a run whose creation
\* failed ends failed with the deploy command never invoked.
C33_CreationOnlyWhenAbsentAndEnabled ==
    (DeployFlow /\ Creations # {}) =>
        /\ projectExists = "no"
        /\ input.createProjectIfMissing = "true"
        /\ Cardinality(Creations) = 1
        /\ (pc = "done" /\ LastCall \in ProjectCreations) =>
              /\ failed # <<>>
              /\ ~Called("wrangler pages deploy")

\* The step of the deploy run an operation belongs to.
StepOf(op) ==
    CASE op \in {"GET project", "wrangler project list"} -> 1
      [] op \in ProjectCreations -> 2
      [] op \in {"fs.access", "fs.writeFile _headers.json", "wrangler pages deploy"} -> 3
      [] op \in {"createDeployment", "createDeploymentStatus success"} -> 5
      [] op = "createComment" -> 6
      [] OTHER -> 7

Checks == Issued("GET project") \cup Issued("wrangler project list")

C35_FailsOnceAndStops ==
    [][ /\ Len(failed') <= 1
        /\ failed # <<>> => /\ calls' = calls
                            /\ failed' = failed
                            /\ outputs' = outputs
                            /\ warnings' = warnings ]_vars

C35_Witness ==
    /\ Len(failed) = 1 /\ pc = "done" /\ Len(calls) >= 2
    /\ calls[Len(calls)].op = "wrangler pages deploy"

DeploymentDeletions ==
    Issued("DELETE deployment") \cup Issued("wrangler deployment delete")

AllProjectDeletions == ProjectDeletions \cup Issued("DELETE project")

\* C36: in every version nothing is tried again but the deletion of the
\* project, once, after "too many deployments" (by the command again in
\* index.mjs, through the API in part_001): the deploy command, the project
\* check and the project creation run at most once, and a deployment id gets
\* at most one deletion request, whatever the answers.
C36_NoRetryButProjectDeletion ==
    /\ Cardinality(Issued("wrangler pages deploy")) <= 1
    /\ Cardinality(Creations) <= 1
    /\ Cardinality(Checks) <= 1
    /\ \A i, j \in DeploymentDeletions : calls[i].id = calls[j].id => i = j
    /\ Cardinality(AllProjectDeletions) <= 2
    /\ Cardinality(AllProjectDeletions) = 2 =>
          /\ variant \in {"index", "part_001"}
          /\ \E i \in ProjectDeletions :
                TooMany(calls[i].id) /\ \A j \in AllProjectDeletions : i <= j

C36_Witness ==
    /\ variant = "index"
    /\ Cardinality(ProjectDeletions) = 2
    /\ Cardinality(Issued("DELETE deployment")) >= 2
    /\ "cleanup" \in warnings
    /\ pc = "done"

\* The failures of the Cloudflare side in the deletion of deployments: of
\* the listing (project absent or any other failure) and of a deletion.
CloudflareFailures == {"project absent", "cloudflare api", "deletion"}

\* C37: in the delete-deployment flow of part_000, after any failure of the
\* Cloudflare side (of the listing or of a deletion) the run is not failed
\* and goes on as it does without one: with a token and a pull request the
\* GitHub deployments are listed for deactivation, and the cleanup comment
\* is posted when it is enabled and the PR number is known.
C37_CloudflareFailuresAreWarnings ==
    (FanOut /\ warnings \cap CloudflareFailures # {}) =>
        /\ failed = <<>>
        /\ pc \notin {"fetch_list", "fanout", "delete_return"} =>
              /\ (input.githubToken /\ input.pullRequest) =>
                    (Called("listDeployments") \/ pc = "deactivate")
              /\ (pc = "done" /\ input.githubToken /\ CleanupCommentDue) =>
                    Called("createComment")

C37_Witness ==
    /\ FanOut /\ pc = "done" /\ failed = <<>>
    /\ "deletion" \in warnings
    /\ summary # <<>> /\ summary[2] >= 1
    /\ Called("listDeployments") /\ Called("createComment")

\* C38: when a sequential pass returns (the cleanup of index.mjs, the two
\* loops of part_003) every deployment it selected has had a deletion
\* requested, whether the deletions before it succeeded or failed.
C38_FailedDeletionDoesNotStopPass ==
    /\ (variant = "index" /\ pc = "cleanup_return" /\ deployments # <<>>) =>
          Ids(deploymentsToActuallyDelete(deployments)) \subseteq Deleted
    /\ (variant = "part_003" /\ pc = "delete_return" /\ deployments # <<>>) =>
          Ids(deleteMatchingSelection(parseDeployments(deployments),
                                      input.deploymentPrefix)) \subseteq Deleted
    /\ (variant = "part_003" /\ pc = "manage_return" /\ deployments # <<>>) =>
          Ids(managePrSelection(parseDeployments(deployments), input.deploymentPrefix,
                                keepDeployments(input))) \subseteq Deleted

\* C39: in the branch deletion of part_000 no deletion is requested for a
\* listed deployment whose metadata names a branch other than the requested
\* one, a branch whose name contains the requested name included.
C39_OtherBranchIsNeverDeleted ==
    (FanOut /\ pc \in {"fanout", "delete_return"}) =>
        \A i \in 1..Len(deployments) :
            (deployments[i].branch # <<>> /\ deployments[i].branch # input.branch) =>
                DeletionsOf(deployments[i].id) = {}

\* C40: two deploy runs of part_001 or part_003 on one project that is
\* absent at first, with the creation enabled, in any interleaving: no run
\* ends failed because the project was created by the other one in the
\* meantime; so once the project is there, a run that has ended and met no
\* failure of the platform or of the network has reached the upload.
C40_NoRunLosesTheRace ==
    (pc = "runs" /\ input.createProjectIfMissing = "true") =>
        \A p \in Runs :
            /\ ~includes(race.runs[p].failed, <<"already exists">>)
            /\ (race.present /\ race.runs[p].pc = "done") =>
                  \/ race.runs[p].exists = "error"
                  \/ includes(race.runs[p].failed, <<"Authentication error">>)
                  \/ includes(race.runs[p].failed, <<"ECONNRESET">>)

====
